---- MODULE Spec2Model ----
(***************************************************************************)
(* rusty-chat-server: the TCP transport of src/src/tcp_server.rs (accept   *)
(* loop, per-connection reader tasks, event handler task, sender task),    *)
(* the user service of src/src/user_service.rs, and the chat session logic *)
(* (crate::server::ChatServer, called from tcp_server.rs but not part of   *)
(* the sources at hand, so taken from the specification, sections 4.C, 6). *)
(***************************************************************************)
EXTENDS Integers, Sequences, FiniteSets, TLC

\* ------------------------------------------------------------------ bounds
\* frames the peers send, in all, under each specification
MaxSends == 3
FanoutSends == 1
FramingSends == 2
DisconnectSends == 2
ExceptSends == 1
ShutdownSends == 1
StallSends == 1
AuthSends == 2
OversizeSends == 1
BackpressureSends == 34
\* bytes the peer of one socket leaves unread, under SpecWire
MaxOutBytes == 12
\* commands the chat logic issues on its own (DisconnectUser, SendToAllExcept)
MaxKicks == 1

\* the connections the listener accepts, under each specification
ConnIds == {1, 2, 3}
SessionConns == {1, 2}
FramingConns == {1, 2}
FanoutConns == {1, 2, 3}
DisconnectConns == {1, 2}
ExceptConns == {1, 2}
ShutdownConns == {1, 2}
StallConns == {1, 2}
AuthConns == {1, 2}
OversizeConns == {1, 2}
BackpressureConns == {1}

\* channel::<_>(32) for both channels
ChannelCapacity == 32

\* ------------------------------------------------------- user service (B)
Alice == <<"a", "l", "i", "c", "e", "_", "0", "1">>
Ghost == <<"g", "h", "o", "s", "t", "_", "9", "9">>
Secret == <<"S", "e", "c", "r", "e", "t", "!", "9">>
Whatever == <<"w", "h", "a", "t", "e", "v", "e", "r", "1">>

Digits == {"0", "1", "2", "3", "4", "5", "6", "7", "8", "9"}
Lower == {"a", "b", "c", "d", "e", "f", "g", "h", "i", "j", "k", "l", "m",
          "n", "o", "p", "q", "r", "s", "t", "u", "v", "w", "x", "y", "z"}
Upper == {"A", "B", "C", "D", "E", "F", "G", "H", "I", "J", "K", "L", "M",
          "N", "O", "P", "Q", "R", "S", "T", "U", "V", "W", "X", "Y", "Z"}
AsciiAlphanumeric == Digits \cup Lower \cup Upper
AsciiGraphic == AsciiAlphanumeric \cup {"!", ".", "_", "-", "#", "@"}

\* bcrypt::hash / bcrypt::verify: the hash is an opaque string that verifies
\* exactly the password it was made from.
BcryptHash(password) == <<"$2b$", password>>
BcryptVerify(password, hash) == hash = BcryptHash(password)

\* verify_name: the loop over name.chars() with the two flags.
RECURSIVE VerifyNameFrom(_, _, _, _)
VerifyNameFrom(name, i, was_dot, was_underscore) ==
    IF i > Len(name) THEN "Ok"
    ELSE IF name[i] \in AsciiAlphanumeric
         THEN VerifyNameFrom(name, i + 1, FALSE, FALSE)
    ELSE IF name[i] = "."
         THEN IF was_dot THEN "MultipleDots"
              ELSE VerifyNameFrom(name, i + 1, TRUE, was_underscore)
    ELSE IF name[i] = "_"
         THEN IF was_underscore THEN "MultipleUnderscores"
              ELSE VerifyNameFrom(name, i + 1, was_dot, TRUE)
    ELSE "UnallowedCharacter"

VerifyName(name) ==
    IF Len(name) < 7 \/ Len(name) > 32 THEN "IncorrectLength"
    ELSE VerifyNameFrom(name, 1, FALSE, FALSE)

VerifyPassword(password) ==
    IF Len(password) < 8 \/ Len(password) > 32 THEN "IncorrectLength"
    ELSE IF \E i \in 1..Len(password) : password[i] \notin AsciiGraphic
         THEN "UnallowedCharacter"
    ELSE "Ok"

\* The credential store is a set of records [name, password_hash].
GetUserByName(store, name) == {r \in store : r.name = name}

\* authenticate_user that returns Ok(()) for every name and password.
AuthenticateUser_AlwaysOk(store, cred) == "Ok"

\* authenticate_user with an error of its own for a name the store lacks.
AuthenticateUser_UserNotFound(store, cred) ==
    LET found == GetUserByName(store, cred.name) IN
    IF found = {} THEN "UserNotFound"
    ELSE IF \E r \in found : BcryptVerify(cred.password, r.password_hash)
         THEN "Ok"
    ELSE "WrongNameOrPassword"

\* authenticate_user: "Ok" or the AuthenticationError.
AuthenticateUser(store, cred) ==
    LET found == GetUserByName(store, cred.name) IN
    IF found = {} THEN "WrongNameOrPassword"
    ELSE IF \E r \in found : BcryptVerify(cred.password, r.password_hash)
         THEN "Ok"
    ELSE "WrongNameOrPassword"

\* add_user that stores the password where its hash belongs.
AddUser_NoHash(store, cred) ==
    IF VerifyName(cred.name) # "Ok"
    THEN [result |-> <<"IncorrectName", VerifyName(cred.name)>>, store |-> store]
    ELSE IF GetUserByName(store, cred.name) # {}
    THEN [result |-> <<"NameAlreadyInUse">>, store |-> store]
    ELSE IF VerifyPassword(cred.password) # "Ok"
    THEN [result |-> <<"IncorrectPassword", VerifyPassword(cred.password)>>,
          store |-> store]
    ELSE [result |-> <<"Ok">>,
          store |-> store \cup {[name |-> cred.name,
                                 password_hash |-> cred.password]}]

\* add_user without the lookup of the name in the store.
AddUser_NoLookup(store, cred) ==
    IF VerifyName(cred.name) # "Ok"
    THEN [result |-> <<"IncorrectName", VerifyName(cred.name)>>, store |-> store]
    ELSE IF VerifyPassword(cred.password) # "Ok"
    THEN [result |-> <<"IncorrectPassword", VerifyPassword(cred.password)>>,
          store |-> store]
    ELSE [result |-> <<"Ok">>,
          store |-> store \cup {[name |-> cred.name,
                                 password_hash |-> BcryptHash(cred.password)]}]

\* add_user that verifies the password before it looks the name up.
AddUser_PasswordFirst(store, cred) ==
    IF VerifyName(cred.name) # "Ok"
    THEN [result |-> <<"IncorrectName", VerifyName(cred.name)>>, store |-> store]
    ELSE IF VerifyPassword(cred.password) # "Ok"
    THEN [result |-> <<"IncorrectPassword", VerifyPassword(cred.password)>>,
          store |-> store]
    ELSE IF GetUserByName(store, cred.name) # {}
    THEN [result |-> <<"NameAlreadyInUse">>, store |-> store]
    ELSE [result |-> <<"Ok">>,
          store |-> store \cup {[name |-> cred.name,
                                 password_hash |-> BcryptHash(cred.password)]}]

\* add_user that replaces the record of a name the store already holds.
AddUser_Overwrite(store, cred) ==
    IF VerifyName(cred.name) # "Ok"
    THEN [result |-> <<"IncorrectName", VerifyName(cred.name)>>, store |-> store]
    ELSE IF GetUserByName(store, cred.name) # {}
    THEN [result |-> <<"NameAlreadyInUse">>,
          store |-> (store \ GetUserByName(store, cred.name))
                       \cup {[name |-> cred.name,
                              password_hash |-> BcryptHash(cred.password)]}]
    ELSE IF VerifyPassword(cred.password) # "Ok"
    THEN [result |-> <<"IncorrectPassword", VerifyPassword(cred.password)>>,
          store |-> store]
    ELSE [result |-> <<"Ok">>,
          store |-> store \cup {[name |-> cred.name,
                                 password_hash |-> BcryptHash(cred.password)]}]

\* add_user: the result and the store afterwards.
AddUser(store, cred) ==
    IF VerifyName(cred.name) # "Ok"
    THEN [result |-> <<"IncorrectName", VerifyName(cred.name)>>, store |-> store]
    ELSE IF GetUserByName(store, cred.name) # {}
    THEN [result |-> <<"NameAlreadyInUse">>, store |-> store]
    ELSE IF VerifyPassword(cred.password) # "Ok"
    THEN [result |-> <<"IncorrectPassword", VerifyPassword(cred.password)>>,
          store |-> store]
    ELSE [result |-> <<"Ok">>,
          store |-> store \cup {[name |-> cred.name,
                                 password_hash |-> BcryptHash(cred.password)]}]

\* The calls of get_user_by_name that add_user makes: none when verify_name
\* fails (the ? operator returns before the lookup), one otherwise.
AddUserLookups(cred) == IF VerifyName(cred.name) # "Ok" THEN 0 ELSE 1

\* ---------------------------------------------------------------- framing
\* (buf.len() as u32).to_le_bytes(), for the lengths below 2^31 that the
\* integers of the model checker can hold: the cast to u32 changes none.
LeBytes(n) ==
    << n % 256, (n \div 256) % 256, (n \div 65536) % 256, (n \div 16777216) % 256 >>

\* u32::from_le_bytes
FromLeBytes(b) == b[1] + 256 * b[2] + 65536 * b[3] + 16777216 * b[4]

\* the bytes write_message puts on the socket
EncodeFrame(payload) == LeBytes(Len(payload)) \o payload

Zeros(n) == [i \in 1..n |-> 0]

Take(s, n) == SubSeq(s, 1, n)
Drop(s, n) == SubSeq(s, n + 1, Len(s))

\* read_from_stream on a socket that holds the bytes avail and is in state st
\* ("open", "eof": peer closed, "error": read error), for a buffer of `want`
\* zero bytes.  res: "full" = Ok(buf.len()), "eof" = Ok(0) after try_read
\* returned 0, "err" = Err, "wait" = still suspended in readable().
ReadFromStream(avail, st, want) ==
    IF Len(avail) >= want
    THEN [res |-> "full", buf |-> Take(avail, want), rest |-> Drop(avail, want)]
    ELSE IF st = "eof"
    THEN [res |-> "eof", buf |-> avail \o Zeros(want - Len(avail)), rest |-> <<>>]
    ELSE IF st = "error"
    THEN [res |-> "err", buf |-> avail \o Zeros(want - Len(avail)), rest |-> <<>>]
    ELSE [res |-> "wait", buf |-> <<>>, rest |-> avail]

\* read_message: res "wait" (suspended), "err" (Err returned: header error),
\* "panic" (header_result.err().unwrap() on an Ok header), "ok" (Ok(buffer)).
\* complete tells whether header and body were both read in full.
ReadMessage(avail, st) ==
    LET h == ReadFromStream(avail, st, 4) IN
    IF h.res = "wait" THEN [res |-> "wait", buf |-> <<>>, rest |-> avail, complete |-> FALSE]
    ELSE IF h.res = "err" THEN [res |-> "err", buf |-> <<>>, rest |-> h.rest, complete |-> FALSE]
    ELSE LET b == ReadFromStream(h.rest, st, FromLeBytes(h.buf)) IN
         IF b.res = "wait" THEN [res |-> "wait", buf |-> <<>>, rest |-> avail, complete |-> FALSE]
         ELSE IF b.res = "err" THEN [res |-> "panic", buf |-> <<>>, rest |-> b.rest, complete |-> FALSE]
         ELSE [res |-> "ok", buf |-> b.buf, rest |-> b.rest,
               complete |-> (h.res = "full" /\ b.res = "full")]

\* write_to_stream(buf) on a writable socket whose try_write accepts n of the
\* bytes of buf: the loop ends on the first Ok(_), whatever the count in it,
\* so the bytes on the socket are the first n of buf and the result is Ok(()).
WriteToStream(buf, n) == Take(buf, n)

\* The counts try_write may return for buf: a socket that is writable takes
\* at least one byte and at most all of them; of no bytes it takes none.
Accepted(buf) == IF buf = <<>> THEN {0} ELSE 1..Len(buf)

\* write_message(buf) when try_write accepts n1 bytes of the header and n2
\* of the body: the bytes put on the socket.
WriteMessage(buf, n1, n2) ==
    WriteToStream(LeBytes(Len(buf)), n1) \o WriteToStream(buf, n2)

\* String::from_utf8: of the bytes used here, 255 can never occur in UTF-8,
\* every byte below 128 is a one-byte character.
Utf8Valid(bytes) == \A i \in 1..Len(bytes) : bytes[i] < 128


\* ------------------------------------------------- chat session logic (C)
\* Requests arrive as JSON text.  One byte stands for the whole text of one
\* request: "A" Authentication{alice_01, Secret!9}, "G" Authentication
\* {ghost_99, whatever1}, "R" Registration{carol.01, Secret!9}, "M"
\* Message{hi}.  Every other byte string is not the JSON of a request.
Carol == <<"c", "a", "r", "o", "l", ".", "0", "1">>

NoRequest == [type |-> "None", name |-> <<>>, password |-> <<>>, message |-> ""]

DecodeRequest(bytes) ==
    IF Len(bytes) # 1 THEN NoRequest
    ELSE IF bytes[1] = 65
    THEN [type |-> "Authentication", name |-> Alice, password |-> Secret, message |-> ""]
    ELSE IF bytes[1] = 71
    THEN [type |-> "Authentication", name |-> Ghost, password |-> Whatever, message |-> ""]
    ELSE IF bytes[1] = 82
    THEN [type |-> "Registration", name |-> Carol, password |-> Secret, message |-> ""]
    ELSE IF bytes[1] = 77
    THEN [type |-> "Message", name |-> <<>>, password |-> <<>>, message |-> "hi"]
    ELSE NoRequest

\* Responses.  `from` is not part of the payload on the wire: it records the
\* connection whose request produced the response (0: none).
AuthenticationResult(ok, err) ==
    [kind |-> "AuthenticationResult", user_name |-> <<>>, flag |-> ok, error |-> err, message |-> ""]
RegistrationResult(ok, err) ==
    [kind |-> "RegistrationResult", user_name |-> <<>>, flag |-> ok, error |-> err, message |-> ""]
MessageResponse(name, text) ==
    [kind |-> "Message", user_name |-> name, flag |-> FALSE, error |-> <<>>, message |-> text]
ConnectionResponse(name, connected) ==
    [kind |-> "Connection", user_name |-> name, flag |-> connected, error |-> <<>>, message |-> ""]
NoPayload ==
    [kind |-> "None", user_name |-> <<>>, flag |-> FALSE, error |-> <<>>, message |-> ""]

\* ChatServerMessage
SendToAll(payload, from) ==
    [type |-> "SendToAll", ids |-> {}, payload |-> payload, from |-> from]
SendToAllExcept(except, payload, from) ==
    [type |-> "SendToAllExcept", ids |-> {except}, payload |-> payload, from |-> from]
SendToSome(ids, payload, from) ==
    [type |-> "SendToSome", ids |-> ids, payload |-> payload, from |-> from]
DisconnectUser(id) ==
    [type |-> "DisconnectUser", ids |-> {id}, payload |-> NoPayload, from |-> 0]
StopThread ==
    [type |-> "StopThread", ids |-> {}, payload |-> NoPayload, from |-> 0]

\* A session table is a function from connection ids to entries; the name
\* of an entry is a set with at most one element (option<string>).
NewSession == [authenticated |-> FALSE, name |-> {}]

\* OtherAuthenticated without the test of the authenticated flag.
OtherAuthenticated_All(table, id) ==
    DOMAIN table \ {id}

\* The authenticated sessions other than id: the fan-out of its messages.
OtherAuthenticated(table, id) ==
    {j \in DOMAIN table \ {id} : table[j].authenticated}

NameOf(entry) == CHOOSE n \in entry.name : TRUE

\* OnUserConnect that inserts an entry with a name in it.
OnUserConnect_Named(table, id) ==
    [j \in DOMAIN table \cup {id} |->
        IF j = id THEN [authenticated |-> FALSE, name |-> {Alice}] ELSE table[j]]

\* on_user_connect: a new entry, no commands.
OnUserConnect(table, id) ==
    [j \in DOMAIN table \cup {id} |-> IF j = id THEN NewSession ELSE table[j]]

OnUserDisconnect(table, id) ==
    [table |-> [j \in DOMAIN table \ {id} |-> table[j]],
     cmds |-> IF id \in DOMAIN table /\ table[id].authenticated
              THEN <<SendToAll(ConnectionResponse(NameOf(table[id]), FALSE), id)>>
              ELSE <<>>]

\* OnUserMessage without the test of the authenticated flag: a session that
\* is authenticated already still takes Authentication and Registration.
OnUserMessage_NoStateTest(table, db, id, bytes) ==
    LET req == DecodeRequest(bytes)
        cred == [name |-> req.name, password |-> req.password]
        same == [table |-> table, store |-> db, cmds |-> <<>>]
    IN
    IF id \notin DOMAIN table \/ req.type = "None" THEN same
    ELSE IF req.type = "Authentication"
    THEN IF AuthenticateUser(db, cred) = "Ok"
         THEN [table |-> [table EXCEPT ![id] =
                             [authenticated |-> TRUE, name |-> {req.name}]],
               store |-> db,
               cmds |-> << SendToSome({id}, AuthenticationResult(TRUE, <<>>), id),
                           SendToSome(OtherAuthenticated(table, id),
                                      ConnectionResponse(req.name, TRUE), id) >>]
         ELSE [table |-> [table EXCEPT ![id] = NewSession], store |-> db,
               cmds |-> << SendToSome({id},
                             AuthenticationResult(FALSE, <<AuthenticateUser(db, cred)>>),
                             id) >>]
    ELSE IF req.type = "Registration"
    THEN LET r == AddUser(db, cred) IN
         [table |-> table, store |-> r.store,
          cmds |-> << SendToSome({id},
                        IF r.result = <<"Ok">>
                        THEN RegistrationResult(TRUE, <<>>)
                        ELSE RegistrationResult(FALSE, r.result),
                        id) >>]
    ELSE IF table[id].authenticated
    THEN [table |-> table, store |-> db,
          cmds |-> << SendToSome(OtherAuthenticated(table, id),
                                 MessageResponse(NameOf(table[id]), req.message),
                                 id) >>]
    ELSE same

\* on_user_message: the session table, the credential store and the commands
\* afterwards.
OnUserMessage(table, db, id, bytes) ==
    LET req == DecodeRequest(bytes)
        cred == [name |-> req.name, password |-> req.password]
        same == [table |-> table, store |-> db, cmds |-> <<>>]
    IN
    IF id \notin DOMAIN table \/ req.type = "None" THEN same
    ELSE IF ~table[id].authenticated
    THEN IF req.type = "Authentication"
         THEN IF AuthenticateUser(db, cred) = "Ok"
              THEN [table |-> [table EXCEPT ![id] =
                                  [authenticated |-> TRUE, name |-> {req.name}]],
                    store |-> db,
                    cmds |-> << SendToSome({id}, AuthenticationResult(TRUE, <<>>), id),
                                SendToSome(OtherAuthenticated(table, id),
                                           ConnectionResponse(req.name, TRUE), id) >>]
              ELSE [table |-> table, store |-> db,
                    cmds |-> << SendToSome({id},
                                  AuthenticationResult(FALSE, <<AuthenticateUser(db, cred)>>),
                                  id) >>]
         ELSE IF req.type = "Registration"
         THEN LET r == AddUser(db, cred) IN
              [table |-> table, store |-> r.store,
               cmds |-> << SendToSome({id},
                             IF r.result = <<"Ok">>
                             THEN RegistrationResult(TRUE, <<>>)
                             ELSE RegistrationResult(FALSE, r.result),
                             id) >>]
         ELSE same
    ELSE IF req.type = "Message"
         THEN [table |-> table, store |-> db,
               cmds |-> << SendToSome(OtherAuthenticated(table, id),
                                      MessageResponse(NameOf(table[id]), req.message),
                                      id) >>]
         ELSE same


\* ------------------------------------------------------------ the state
VARIABLES
    nAccepted,    \* connections accepted so far by tcp_listener_loop
    sock,         \* per connection: the peer's side, [st, inbuf]
    nSends,       \* frames put on the sockets by the peers so far
    rPc,          \* per connection: where handle_incoming_tcp_stream is
    evChan,       \* the ChatServerEvent channel
    ehPc,         \* where event_handler is
    ehEvent,      \* the event it handled last, or is handling
    ehPending,    \* commands the chat logic has still to put on msgChan
    mutex,        \* who holds Mutex<ChatServerState>: "free", "eh", "sender"
    connections,  \* ChatServerState.connections (its keys)
    users,        \* the session table of the chat logic
    store,        \* the credential store
    msgChan,      \* the ChatServerMessage channel
    sPc,          \* where message_send_handler is
    sCmd,         \* the command it is executing
    sTargets,     \* the part of final_users_list still to be iterated
    sCur,         \* the connection_id of the current iteration
    wire,         \* per connection: the frames written to its socket
    kicked,       \* connections a DisconnectUser was executed for
    nKicks,       \* commands the chat logic emitted on its own so far
    menu,         \* what the peers choose from; never changes
    runPc,        \* where ChatTcpServer::run is
    out,          \* the bytes one socket has accepted from write_to_stream
    registered,   \* the credentials add_user returned Ok(()) for
    authResult,   \* the last call of authenticate_user and what it returned
    addResult,    \* the last call of add_user and what it returned
    nameResult    \* the last call of verify_name and what it returned

vars == << nAccepted, sock, nSends, rPc, evChan, ehPc, ehEvent,
           ehPending, mutex, connections, users, store, msgChan, sPc, sCmd,
           sTargets, sCur, wire, kicked, nKicks, menu, runPc, out,
           registered, authResult, addResult, nameResult >>

\* What the accept loop, the readers, the event handler and the sender
\* never write.
restVars ==
    << menu, runPc, out, registered, authResult, addResult, nameResult >>
clientVars == << nAccepted, sock, nSends, restVars >>
readerVars == << rPc >>
ehVars == << ehPc, ehEvent, ehPending >>
stateVars == << connections, users, store >>
senderVars == << sPc, sCmd, sTargets, sCur, wire, kicked >>

\* What the peers may do: the payloads they put into frames, the points
\* <<k, how>> at which they break off a frame (after k of its bytes, by
\* closing the socket, "eof", or by a broken connection, "error"), and how
\* many connections and frames there are.  65 66 ... are the requests of
\* DecodeRequest, 255 is a byte that is not UTF-8, 123 ("{") is text that is
\* not a request.
SessionMenu ==
    [payloads |-> { <<65>>, <<77>>, <<82>> },
     aborts |-> { <<0, "eof">> },
     conns |-> SessionConns, sends |-> MaxSends]

FramingMenu ==
    [payloads |-> { <<65>>, <<255>>, <<123>>, <<>> },
     aborts |-> { <<0, "eof">>, <<1, "eof">>, <<4, "eof">>,
                  <<0, "error">>, <<1, "error">>, <<4, "error">> },
     conns |-> FramingConns, sends |-> FramingSends]

DisconnectMenu ==
    [payloads |-> { <<65>> },
     aborts |-> { <<0, "eof">> },
     conns |-> DisconnectConns, sends |-> DisconnectSends]

ExceptMenu ==
    [payloads |-> { <<65>> },
     aborts |-> { <<0, "eof">> },
     conns |-> ExceptConns, sends |-> ExceptSends]

ShutdownMenu ==
    [payloads |-> { <<65>> },
     aborts |-> { <<0, "eof">> },
     conns |-> ShutdownConns, sends |-> ShutdownSends]

StallMenu ==
    [payloads |-> { <<65>> },
     aborts |-> { <<0, "eof">>, <<0, "stalled">> },
     conns |-> StallConns, sends |-> StallSends]

AuthMenu ==
    [payloads |-> { <<65>>, <<71>>, <<77>>, <<82>> },
     aborts |-> { <<0, "eof">> },
     conns |-> AuthConns, sends |-> AuthSends]

\* Peers that also send a frame longer than the limit of the frame length.
OversizeMenu ==
    [payloads |-> { <<65>>, <<65, 65>> },
     aborts |-> { <<0, "eof">> },
     conns |-> OversizeConns, sends |-> OversizeSends]

\* One peer that sends more requests than the command channel has room for.
BackpressureMenu ==
    [payloads |-> { <<71>> },
     aborts |-> { <<0, "eof">> },
     conns |-> BackpressureConns, sends |-> BackpressureSends]

FanoutMenu ==
    [payloads |-> { <<65>> },
     aborts |-> { <<0, "eof">>, <<0, "error">> },
     conns |-> FanoutConns, sends |-> FanoutSends]

NoEvent ==
    [type |-> "None", id |-> 0, msg |-> <<>>, complete |-> FALSE, late |-> FALSE,
     produced |-> 0]
NoAuthResult == [name |-> <<>>, password |-> <<>>, result |-> "None"]
NoNameResult == [name |-> <<>>, result |-> "None"]
NoAddResult ==
    [name |-> <<>>, password |-> <<>>, result |-> <<"None">>, lookups |-> 0]
NoCmd == [type |-> "None", ids |-> {}, payload |-> NoPayload, from |-> 0]

\* ChatServerEvent; complete, late and produced are not part of the event:
\* they record whether the message was read from a whole frame, whether it
\* was read after a DisconnectUser of its connection was executed, and how
\* many commands the chat logic answered the event with.
UserConnected(id) ==
    [type |-> "UserConnected", id |-> id, msg |-> <<>>, complete |-> FALSE,
     late |-> FALSE, produced |-> 0]
UserDisconnected(id) ==
    [type |-> "UserDisconnected", id |-> id, msg |-> <<>>, complete |-> FALSE,
     late |-> FALSE, produced |-> 0]
UserSentMessage(id, msg, complete, late) ==
    [type |-> "UserSentMessage", id |-> id, msg |-> msg, complete |-> complete,
     late |-> late, produced |-> 0]
CtrlCPressed ==
    [type |-> "CtrlCPressed", id |-> 0, msg |-> <<>>, complete |-> FALSE,
     late |-> FALSE, produced |-> 0]

\* The credential store outlives the process: alice_01 registered earlier.
InitWith(payloads) ==
    /\ menu = payloads
    /\ nAccepted = 0
    /\ sock = [id \in ConnIds |-> [st |-> "none", inbuf |-> <<>>]]
    /\ nSends = 0
    /\ rPc = [id \in ConnIds |-> "none"]
    /\ evChan = <<>>
    /\ ehPc = "recv"
    /\ ehEvent = NoEvent
    /\ ehPending = <<>>
    /\ mutex = "free"
    /\ connections = {}
    /\ users = << >>
    /\ store = {[name |-> Alice, password_hash |-> BcryptHash(Secret)]}
    /\ msgChan = <<>>
    /\ sPc = "recv"
    /\ sCmd = NoCmd
    /\ sTargets = {}
    /\ sCur = 0
    /\ wire = [id \in ConnIds |-> <<>>]
    /\ kicked = {}
    /\ nKicks = 0
    /\ runPc = "waiting"
    /\ out = <<>>
    /\ registered = {}
    /\ authResult = NoAuthResult
    /\ addResult = NoAddResult
    /\ nameResult = NoNameResult

Init == InitWith(SessionMenu)

\* What the loop of handle_incoming_tcp_stream does with the result of
\* read_message: "closing" = break, "loop" = continue, "send" = send
\* UserSentMessage, "panicked".
AfterRead(r) ==
    IF r.res = "err" THEN "closing"
    ELSE IF r.res = "panic" THEN "panicked"
    ELSE IF r.buf = <<>> THEN "closing"
    ELSE IF ~Utf8Valid(r.buf) THEN "loop"
    ELSE "send"

\* One iteration of the loop of handle_incoming_tcp_stream for the result r
\* of read_message; after a break, UserDisconnected is sent and the task ends.
Iteration(id, r) ==
    IF AfterRead(r) = "send"
    THEN /\ Len(evChan) < ChannelCapacity
         /\ evChan' = Append(evChan,
                             UserSentMessage(id, r.buf, r.complete, id \in kicked))
         /\ rPc' = rPc
    ELSE IF AfterRead(r) = "closing"
    THEN /\ Len(evChan) < ChannelCapacity
         /\ evChan' = Append(evChan, UserDisconnected(id))
         /\ rPc' = [rPc EXCEPT ![id] = "done"]
    ELSE /\ evChan' = evChan
         /\ rPc' = [rPc EXCEPT ![id] = AfterRead(r)]

\* ------------------------------------------------------------- the peers
\* A peer sends one whole frame and the reader of the connection reads it.
\* Between the two nothing else looks at the bytes, and a frame that arrives
\* while earlier frames are unread is read as if it came after they were
\* read: so the frame is sent into an empty buffer and read at once.
ClientSend(id, payload) ==
    /\ sock[id].st = "open"
    /\ sock[id].inbuf = <<>>
    /\ rPc[id] = "loop"
    /\ payload \in menu.payloads
    /\ nSends < menu.sends
    /\ nSends' = nSends + 1
    /\ Iteration(id, ReadMessage(EncodeFrame(payload), "open"))
    /\ UNCHANGED << nAccepted, sock, restVars, ehVars, mutex, stateVars, msgChan,
                    senderVars, nKicks >>

\* A peer sends the first k bytes of a frame (none, for k = 0) and then
\* closes the socket (how = "eof"), or the connection breaks (how = "error"),
\* or the peer sends and reads no more while the send buffer of its socket
\* at the server is full (how = "stalled").
ClientAbort(id, payload, k, how) ==
    /\ sock[id].st = "open"
    /\ payload \in menu.payloads
    /\ <<k, how>> \in menu.aborts
    /\ k < Len(EncodeFrame(payload))
    /\ sock' = [sock EXCEPT ![id] = [st |-> how,
                                     inbuf |-> @.inbuf \o Take(EncodeFrame(payload), k)]]
    /\ UNCHANGED << nAccepted, nSends, restVars, readerVars, evChan, ehVars, mutex,
                    stateVars, msgChan, senderVars, nKicks >>

\* ---------------------------------------------- accept loop and readers
\* tcp_listener_loop accepts and spawns handle_incoming_tcp_stream, which
\* sends UserConnected and enters its loop.  The connection ids are fresh
\* (Uuid::new_v4); they are numbered in the order of acceptance.  The loop
\* runs until run() aborts it.
Accept ==
    /\ runPc # "returned"
    /\ nAccepted + 1 \in menu.conns
    /\ Len(evChan) < ChannelCapacity
    /\ nAccepted' = nAccepted + 1
    /\ sock' = [sock EXCEPT ![nAccepted + 1].st = "open"]
    /\ rPc' = [rPc EXCEPT ![nAccepted + 1] = "loop"]
    /\ evChan' = Append(evChan, UserConnected(nAccepted + 1))
    /\ UNCHANGED << nSends, restVars, ehVars, mutex, stateVars, msgChan,
                    senderVars, nKicks >>

\* What read_message returns to the reader of id, once it can return.
ReadOf(id) == ReadMessage(sock[id].inbuf, sock[id].st)

\* The iteration of the loop in which the reader finds the socket closed or
\* broken.  read_message holds the lock of read_stream, which event_handler
\* takes for a moment when it handles UserConnected; the reader may take
\* that lock as late as the moment read_message can return, so the lock
\* delays the event handler but forbids no order of the steps of this model.
ReaderRead(id) ==
    /\ rPc[id] = "loop"
    /\ ReadOf(id).res # "wait"
    /\ sock' = [sock EXCEPT ![id].inbuf = ReadOf(id).rest]
    /\ Iteration(id, ReadOf(id))
    /\ UNCHANGED << nAccepted, nSends, restVars, ehVars, mutex, stateVars,
                    msgChan, senderVars, nKicks >>

\* ---------------------------------------------------------- event_handler
\* HandleEvent with an arm of UserDisconnected that removes the connection
\* and does not call on_user_disconnect.
HandleEvent_NoDisconnectCall(ev, conns, table, db) ==
    IF ev.type = "UserConnected"
    THEN [connections |-> conns \cup {ev.id},
          table |-> OnUserConnect(table, ev.id), store |-> db, cmds |-> <<>>]
    ELSE IF ev.type = "UserDisconnected"
    THEN [connections |-> conns \ {ev.id}, table |-> table, store |-> db,
          cmds |-> <<>>]
    ELSE IF ev.type = "CtrlCPressed"
    THEN [connections |-> {}, table |-> table, store |-> db, cmds |-> <<>>]
    ELSE [connections |-> conns,
          table |-> OnUserMessage(table, db, ev.id, ev.msg).table,
          store |-> OnUserMessage(table, db, ev.id, ev.msg).store,
          cmds |-> OnUserMessage(table, db, ev.id, ev.msg).cmds]

\* HandleEvent whose UserDisconnected arm leaves the connection table alone.
HandleEvent_NoRemove(ev, conns, table, db) ==
    IF ev.type = "UserConnected"
    THEN [connections |-> conns \cup {ev.id},
          table |-> OnUserConnect(table, ev.id), store |-> db, cmds |-> <<>>]
    ELSE IF ev.type = "UserDisconnected"
    THEN [connections |-> conns,
          table |-> OnUserDisconnect(table, ev.id).table, store |-> db,
          cmds |-> OnUserDisconnect(table, ev.id).cmds]
    ELSE IF ev.type = "CtrlCPressed"
    THEN [connections |-> {}, table |-> table, store |-> db, cmds |-> <<>>]
    ELSE [connections |-> conns,
          table |-> OnUserMessage(table, db, ev.id, ev.msg).table,
          store |-> OnUserMessage(table, db, ev.id, ev.msg).store,
          cmds |-> OnUserMessage(table, db, ev.id, ev.msg).cmds]

\* The arms of `match received_state`: the connection table, the session
\* table, the credential store and the commands of the chat logic afterwards.
HandleEvent(ev, conns, table, db) ==
    IF ev.type = "UserConnected"
    THEN [connections |-> conns \cup {ev.id},
          table |-> OnUserConnect(table, ev.id), store |-> db, cmds |-> <<>>]
    ELSE IF ev.type = "UserDisconnected"
    THEN [connections |-> conns \ {ev.id},
          table |-> OnUserDisconnect(table, ev.id).table, store |-> db,
          cmds |-> OnUserDisconnect(table, ev.id).cmds]
    ELSE IF ev.type = "CtrlCPressed"
    THEN [connections |-> {}, table |-> table, store |-> db, cmds |-> <<>>]
    ELSE [connections |-> conns,
          table |-> OnUserMessage(table, db, ev.id, ev.msg).table,
          store |-> OnUserMessage(table, db, ev.id, ev.msg).store,
          cmds |-> OnUserMessage(table, db, ev.id, ev.msg).cmds]

\* Where event_handler is after an arm: CtrlCPressed breaks the loop.
AfterEvent(ev) == IF ev.type = "CtrlCPressed" THEN "done" ELSE "recv"

SenderGone == sPc \in {"stopped", "panicked"}

\* EHHandle on a channel that hands out its newest event first.
EHHandle_Last ==
    LET h == HandleEvent(evChan[Len(evChan)], connections, users, store) IN
    /\ ehPc = "recv"
    /\ evChan # <<>>
    /\ mutex = "free"
    /\ evChan' = Take(evChan, Len(evChan) - 1)
    /\ connections' = h.connections
    /\ users' = h.table
    /\ store' = h.store
    /\ ehEvent' = [evChan[Len(evChan)] EXCEPT !.produced = Len(h.cmds)]
    /\ IF SenderGone
       THEN /\ msgChan' = msgChan
            /\ ehPc' = AfterEvent(evChan[Len(evChan)]) /\ mutex' = "free" /\ ehPending' = <<>>
       ELSE IF Len(msgChan) + Len(h.cmds) <= ChannelCapacity
       THEN /\ msgChan' = msgChan \o h.cmds
            /\ ehPc' = AfterEvent(evChan[Len(evChan)]) /\ mutex' = "free" /\ ehPending' = <<>>
       ELSE /\ msgChan' = msgChan
            /\ ehPc' = "sending" /\ mutex' = "eh" /\ ehPending' = h.cmds
    /\ UNCHANGED << clientVars, readerVars, senderVars, nKicks >>

\* receiver.recv() and one arm: lock the state, change the tables, let the
\* chat logic compute its commands and put them on msgChan with
\* message_sender.send(command).  A command sent after the receiver is gone
\* is lost.  The lock of the state is kept until the last command is on the
\* channel: when the channel has no room for them all, the handler waits
\* with the lock in its hand.
EHHandle ==
    LET h == HandleEvent(Head(evChan), connections, users, store) IN
    /\ ehPc = "recv"
    /\ evChan # <<>>
    /\ mutex = "free"
    /\ evChan' = Tail(evChan)
    /\ connections' = h.connections
    /\ users' = h.table
    /\ store' = h.store
    /\ ehEvent' = [Head(evChan) EXCEPT !.produced = Len(h.cmds)]
    /\ IF SenderGone
       THEN /\ msgChan' = msgChan
            /\ ehPc' = AfterEvent(Head(evChan)) /\ mutex' = "free" /\ ehPending' = <<>>
       ELSE IF Len(msgChan) + Len(h.cmds) <= ChannelCapacity
       THEN /\ msgChan' = msgChan \o h.cmds
            /\ ehPc' = AfterEvent(Head(evChan)) /\ mutex' = "free" /\ ehPending' = <<>>
       ELSE /\ msgChan' = msgChan
            /\ ehPc' = "sending" /\ mutex' = "eh" /\ ehPending' = h.cmds
    /\ UNCHANGED << clientVars, readerVars, senderVars, nKicks >>

\* message_sender.send(command) of a handler that found the channel full.
EHSend ==
    /\ ehPc = "sending"
    /\ IF SenderGone
       THEN msgChan' = msgChan
       ELSE /\ Len(msgChan) < ChannelCapacity
            /\ msgChan' = Append(msgChan, Head(ehPending))
    /\ ehPending' = Tail(ehPending)
    /\ IF Tail(ehPending) = <<>>
       THEN ehPc' = "recv" /\ mutex' = "free"
       ELSE ehPc' = "sending" /\ mutex' = "eh"
    /\ UNCHANGED << clientVars, readerVars, evChan, ehEvent, stateVars,
                    senderVars, nKicks >>

\* The chat logic asks the transport to disconnect a user.
EmitDisconnectUser(id) ==
    /\ ehPc = "recv"
    /\ mutex = "free"
    /\ id \in DOMAIN users
    /\ nKicks < MaxKicks
    /\ ~SenderGone
    /\ Len(msgChan) < ChannelCapacity
    /\ msgChan' = Append(msgChan, DisconnectUser(id))
    /\ nKicks' = nKicks + 1
    /\ UNCHANGED << clientVars, readerVars, evChan, ehVars, mutex, stateVars,
                    senderVars >>

\* The chat logic asks the transport to send a payload to every connection
\* but the one of session id.
EmitSendToAllExcept(id) ==
    /\ ehPc = "recv"
    /\ mutex = "free"
    /\ id \in DOMAIN users
    /\ nKicks < MaxKicks
    /\ ~SenderGone
    /\ Len(msgChan) < ChannelCapacity
    /\ msgChan' = Append(msgChan,
                         SendToAllExcept(id, MessageResponse(Alice, "hi"), id))
    /\ nKicks' = nKicks + 1
    /\ UNCHANGED << clientVars, readerVars, evChan, ehVars, mutex, stateVars,
                    senderVars >>

\* ------------------------------------------------------------------ run
\* signal::ctrl_c() returns and run() sends CtrlCPressed to event_handler.
CtrlC ==
    /\ runPc = "waiting"
    /\ Len(evChan) < ChannelCapacity
    /\ evChan' = Append(evChan, CtrlCPressed)
    /\ runPc' = "stop"
    /\ UNCHANGED << nAccepted, sock, nSends, menu, out, registered,
                    authResult, addResult,
                    nameResult, readerVars, ehVars, mutex, stateVars, msgChan,
                    senderVars, nKicks >>

\* message_sender.send(StopThread).await.unwrap(): the send fails when the
\* receiver was dropped with the end of message_send_handler, and the unwrap
\* of its Err panics.
RunStopThread ==
    /\ runPc = "stop"
    /\ IF SenderGone
       THEN /\ runPc' = "panicked"
            /\ msgChan' = msgChan
       ELSE /\ Len(msgChan) < ChannelCapacity
            /\ msgChan' = Append(msgChan, StopThread)
            /\ runPc' = "join"
    /\ UNCHANGED << nAccepted, sock, nSends, menu, out, registered,
                    authResult, addResult,
                    nameResult, readerVars, evChan, ehVars, mutex, stateVars,
                    senderVars, nKicks >>

\* event_handler_handle.await, then the abort of the listener and of the
\* sender, which drops the lock of the state if it has it.
RunJoin ==
    /\ runPc = "join"
    /\ ehPc = "done"
    /\ runPc' = "returned"
    /\ sPc' = IF sPc = "panicked" THEN "panicked" ELSE "stopped"
    /\ mutex' = IF mutex = "sender" THEN "free" ELSE mutex
    /\ UNCHANGED << nAccepted, sock, nSends, menu, out, registered,
                    authResult, addResult,
                    nameResult, readerVars, evChan, ehVars, stateVars,
                    msgChan, sCmd, sTargets, sCur, wire, kicked, nKicks >>

\* --------------------------------------------------- message_send_handler
\* SenderUsersList with `users_list = Some(connection_id_exceptions)` left
\* out of the SendToSome arm: the list stays None and every key is taken.
SenderUsersList_KeysForSome(cmd, conns) ==
    IF cmd.type = "SendToAllExcept"
    THEN IF Cardinality(conns) = 1 THEN [skip |-> TRUE, list |-> {}]
         ELSE [skip |-> FALSE, list |-> conns \ cmd.ids]
    ELSE [skip |-> FALSE, list |-> conns]

\* users_list / final_users_list of a command that sends: skip is the
\* `continue` of SendToAllExcept.
SenderUsersList(cmd, conns) ==
    IF cmd.type = "SendToAll" THEN [skip |-> FALSE, list |-> conns]
    ELSE IF cmd.type = "SendToAllExcept"
    THEN IF Cardinality(conns) = 1 THEN [skip |-> TRUE, list |-> {}]
         ELSE [skip |-> FALSE, list |-> conns \ cmd.ids]
    ELSE [skip |-> FALSE, list |-> cmd.ids]

\* SenderRecv on a channel that hands out its newest command first.
SenderRecv_Last ==
    LET cmd == msgChan[Len(msgChan)] IN
    /\ sPc = "recv"
    /\ msgChan # <<>>
    /\ msgChan' = Take(msgChan, Len(msgChan) - 1)
    /\ \/ /\ cmd.type = "StopThread"
          /\ sPc' = "stopped"
          /\ sCmd' = cmd
          /\ UNCHANGED << connections, sTargets, kicked >>
       \/ /\ cmd.type = "DisconnectUser"
          /\ mutex = "free"
          /\ connections' = connections \ cmd.ids
          /\ kicked' = kicked \cup cmd.ids
          /\ sPc' = "stopped"
          /\ sCmd' = cmd
          /\ UNCHANGED sTargets
       \/ /\ cmd.type \in {"SendToAll", "SendToAllExcept", "SendToSome"}
          /\ cmd.type # "SendToSome" => mutex = "free"
          /\ sTargets' = SenderUsersList(cmd, connections).list
          /\ IF SenderUsersList(cmd, connections).list = {}
             THEN sPc' = "recv" /\ sCmd' = NoCmd
             ELSE sPc' = "lock" /\ sCmd' = cmd
          /\ UNCHANGED << connections, kicked >>
    /\ UNCHANGED << clientVars, readerVars, evChan, ehVars, mutex, users,
                    store, sCur, wire, nKicks >>

\* recevier.recv(), `match message`, and the snapshot of the keys for
\* SendToAll.  The order of final_users_list is the order of a HashMap's keys
\* or of the list the chat logic built: any; the loop below picks its next
\* element freely.
SenderRecv ==
    LET cmd == Head(msgChan) IN
    /\ sPc = "recv"
    /\ msgChan # <<>>
    /\ msgChan' = Tail(msgChan)
    /\ \/ /\ cmd.type = "StopThread"
          /\ sPc' = "stopped"
          /\ sCmd' = cmd
          /\ UNCHANGED << connections, sTargets, kicked >>
       \/ /\ cmd.type = "DisconnectUser"
          /\ mutex = "free"
          /\ connections' = connections \ cmd.ids
          /\ kicked' = kicked \cup cmd.ids
          /\ sPc' = "stopped"
          /\ sCmd' = cmd
          /\ UNCHANGED sTargets
       \/ /\ cmd.type \in {"SendToAll", "SendToAllExcept", "SendToSome"}
          /\ cmd.type # "SendToSome" => mutex = "free"
          /\ sTargets' = SenderUsersList(cmd, connections).list
          /\ IF SenderUsersList(cmd, connections).list = {}
             THEN sPc' = "recv" /\ sCmd' = NoCmd
             ELSE sPc' = "lock" /\ sCmd' = cmd
          /\ UNCHANGED << connections, kicked >>
    /\ UNCHANGED << clientVars, readerVars, evChan, ehVars, mutex, users,
                    store, sCur, wire, nKicks >>

\* The head of one iteration: state.lock(), connections.get(id).unwrap().
\* The unwrap of None panics; the guard of the lock is dropped on the way.
SenderLock(id) ==
    /\ sPc = "lock"
    /\ id \in sTargets
    /\ mutex = "free"
    /\ IF id \in connections
       THEN sPc' = "writing" /\ mutex' = "sender" /\ sCur' = id
       ELSE sPc' = "panicked" /\ mutex' = "free" /\ sCur' = id
    /\ UNCHANGED << clientVars, readerVars, evChan, ehVars, stateVars,
                    msgChan, sCmd, sTargets, wire, kicked, nKicks >>

\* write_message on the socket of id: an error once the connection is
\* broken; "wait" = suspended in writable() while the peer has stalled.
WriteResult(id) ==
    IF sock[id].st = "error" THEN "err"
    ELSE IF sock[id].st = "stalled" THEN "wait"
    ELSE "ok"

\* What is left of final_users_list after the write to cur: the loop breaks
\* on an error.
AfterWrite(result, targets, cur) ==
    IF result = "err" THEN {} ELSE targets \ {cur}

\* The rest of the iteration: write_message under the lock of the state and
\* the lock of write_stream, then drop both.
SenderWrite ==
    /\ sPc = "writing"
    /\ WriteResult(sCur) # "wait"
    /\ wire' = IF WriteResult(sCur) = "ok"
               THEN [wire EXCEPT ![sCur] = Append(@, [payload |-> sCmd.payload,
                                                      from |-> sCmd.from])]
               ELSE wire
    /\ sTargets' = AfterWrite(WriteResult(sCur), sTargets, sCur)
    /\ IF AfterWrite(WriteResult(sCur), sTargets, sCur) = {}
       THEN sPc' = "recv" /\ sCmd' = NoCmd
       ELSE sPc' = "lock" /\ sCmd' = sCmd
    /\ sCur' = 0
    /\ mutex' = "free"
    /\ UNCHANGED << clientVars, readerVars, evChan, ehVars, stateVars,
                    msgChan, kicked, nKicks >>

\* write_message of the sender task, seen at the bytes of one socket: the
\* steps above keep the frames written (wire), this one keeps the bytes.
SocketWrite(payload, n1, n2) ==
    /\ n1 \in Accepted(LeBytes(Len(payload)))
    /\ n2 \in Accepted(payload)
    /\ Len(out) + Len(EncodeFrame(payload)) <= MaxOutBytes
    /\ out' = out \o WriteMessage(payload, n1, n2)
    /\ UNCHANGED << nAccepted, sock, nSends, menu, runPc, registered,
                    authResult, addResult,
                    nameResult, readerVars, evChan, ehVars, mutex, stateVars,
                    msgChan, senderVars, nKicks >>

\* --------------------------------------------- calls of the user service
\* The names and passwords the callers of the user service try: some pass
\* verify_name and verify_password, some do not.
ShortName == <<"b", "o", "b">>
DotsName == <<"d", "o", "t", ".", ".", "t", "e", "d">>
ShortPassword == <<"p", "w", "1", "2">>
Credentials ==
    [name : {Alice, Carol, Ghost, ShortName, DotsName},
     password : {Secret, Whatever, ShortPassword}]

\* One call of add_user.
AddUserCall(cred) ==
    /\ store' = AddUser(store, cred).store
    /\ registered' = IF AddUser(store, cred).result = <<"Ok">>
                     THEN registered \cup {cred}
                     ELSE registered
    /\ addResult' = [name |-> cred.name, password |-> cred.password,
                     result |-> AddUser(store, cred).result,
                     lookups |-> AddUserLookups(cred)]
    /\ UNCHANGED << nAccepted, sock, nSends, menu, runPc, out, authResult,
                    nameResult,
                    readerVars, evChan, ehVars, mutex, connections, users,
                    msgChan, senderVars, nKicks >>

\* One call of authenticate_user.
AuthenticateUserCall(cred) ==
    /\ authResult' = [name |-> cred.name, password |-> cred.password,
                      result |-> AuthenticateUser(store, cred)]
    /\ UNCHANGED << nAccepted, sock, nSends, menu, runPc, out, registered,
                    addResult, nameResult, readerVars, evChan, ehVars, mutex, stateVars, msgChan,
                    senderVars, nKicks >>

\* The names verify_name is tried with: every name of 6 and of 7 characters
\* over a letter, the dot and the underscore, and names with a character
\* that is not allowed, of 32 and of 33 characters.
NameAlphabet == {"a", ".", "_"}
NameLens == {6, 7}
BangName == <<"a", "b", "c", "!", "d", "e", "f">>
LongName == [i \in 1..32 |-> "a"]
TooLongName == [i \in 1..33 |-> "a"]
Names ==
    UNION {[1..n -> NameAlphabet] : n \in NameLens}
       \cup {BangName, LongName, TooLongName}

\* One call of verify_name; it keeps no state, so one call is a whole run.
VerifyNameCall(name) ==
    /\ nameResult = NoNameResult
    /\ nameResult' = [name |-> name, result |-> VerifyName(name)]
    /\ UNCHANGED << nAccepted, sock, nSends, menu, runPc, out, registered,
                    authResult, addResult, readerVars, evChan, ehVars, mutex,
                    stateVars, msgChan, senderVars, nKicks >>

\* ------------------------------------------------------ specifications
Next ==
    \/ Accept
    \/ \E id \in ConnIds, payload \in menu.payloads : ClientSend(id, payload)
    \/ \E id \in ConnIds, payload \in menu.payloads, a \in menu.aborts :
          ClientAbort(id, payload, a[1], a[2])
    \/ \E id \in ConnIds : ReaderRead(id)
    \/ EHHandle
    \/ SenderRecv
    \/ \E id \in ConnIds : SenderLock(id)
    \/ SenderWrite

Spec == Init /\ [][Next]_vars

\* The same, with a chat logic that issues DisconnectUser commands.
NextDisconnect ==
    \/ Next
    \/ \E id \in ConnIds : EmitDisconnectUser(id)

SpecDisconnect == InitWith(DisconnectMenu) /\ [][NextDisconnect]_vars

\* The same, with a chat logic that issues SendToAllExcept commands.
NextExcept ==
    \/ Next
    \/ \E id \in ConnIds : EmitSendToAllExcept(id)

SpecExcept == InitWith(ExceptMenu) /\ [][NextExcept]_vars

\* The bytes of the frames the sender writes to one socket.
WirePayloads == { <<65>>, <<65, 66>> }

NextWire ==
    \E payload \in WirePayloads, n1 \in 0..4, n2 \in 0..2 :
       SocketWrite(payload, n1, n2)

SpecWire == InitWith(FanoutMenu) /\ [][NextWire]_vars

\* The same, with the interrupt signal and the steps of run() after it.
NextShutdown ==
    \/ Next
    \/ CtrlC
    \/ RunStopThread
    \/ RunJoin

SpecShutdown == InitWith(ShutdownMenu) /\ [][NextShutdown]_vars

\* Peers that stop reading.
SpecStall == InitWith(StallMenu) /\ [][Next]_vars

\* Peers that also try credentials the store does not hold.
SpecAuth == InitWith(AuthMenu) /\ [][Next]_vars

\* The user service alone, called with any credentials in any order.
NextUsers ==
    \/ \E cred \in Credentials : AddUserCall(cred)
    \/ \E cred \in Credentials : AuthenticateUserCall(cred)

SpecUsers == InitWith(SessionMenu) /\ [][NextUsers]_vars

\* verify_name alone.
NextNames == \E name \in Names : VerifyNameCall(name)

SpecNames == InitWith(SessionMenu) /\ [][NextNames]_vars

\* The same as Next, with the handler that waits for room on the command
\* channel.
NextBackpressure ==
    \/ Next
    \/ EHSend

SpecBackpressure == InitWith(BackpressureMenu) /\ [][NextBackpressure]_vars

SpecOversize == InitWith(OversizeMenu) /\ [][Next]_vars

SpecFraming == InitWith(FramingMenu) /\ [][Next]_vars

SpecFanout == InitWith(FanoutMenu) /\ [][Next]_vars


\* ------------------------------------------------------------- the claims
\* Steps of the sender task, told by what they change.
SenderWrites == sPc = "writing" /\ sPc' # "writing"

\* C1: executing SendToSome(ids, payload), the sender skips the ids that
\* are no longer in the connection table and goes on: it does not die on
\* such an id.
C1_SendToSomeSkipsAbsent ==
    ~(sPc = "panicked" /\ sCmd.type = "SendToSome" /\ sCur \notin connections)

\* C2: when the write to one destination of a command fails, the other
\* destinations of the command are still written to: the step of a failed
\* write takes only its own destination off the list.
C2_FailureDoesNotCancel ==
    [][(SenderWrites /\ WriteResult(sCur) = "err")
         => sTargets' = sTargets \ {sCur}]_vars

\* C3: no task writes to a socket while it holds the mutex of the state.
C3_NoWriteUnderLock ==
    ~(sPc = "writing" /\ mutex = "sender")


\* The connections a command is written to, given the connection table.
TargetSet(cmd) == SenderUsersList(cmd, connections).list

\* The commands a step puts on the command channel.
NewCommands ==
    IF Len(msgChan') > Len(msgChan)
    THEN {msgChan'[i] : i \in (Len(msgChan) + 1)..Len(msgChan')}
    ELSE {}

Authenticated(table) == {j \in DOMAIN table : table[j].authenticated}

\* A step of the event handler that takes an event off the channel.
HandlesHead ==
    ehPc = "recv" /\ evChan # <<>> /\ evChan' = Tail(evChan)

\* C4: the command built for a Message request of an authenticated
\* connection does not have that connection in its target set, and no frame
\* with that message is written to the connection it came from.
C4_NoEcho ==
    /\ \A i \in 1..Len(msgChan) :
          msgChan[i].payload.kind = "Message"
             => msgChan[i].from \notin TargetSet(msgChan[i])
    /\ sCmd.payload.kind = "Message" => sCmd.from \notin sTargets \cup {sCur}
    /\ \A id \in ConnIds : \A i \in 1..Len(wire[id]) :
          wire[id][i].payload.kind = "Message" => wire[id][i].from # id

\* Witness of C4: a Message of one connection was written to another one,
\* and the connection it came from has been written no Message.
C4_Witness ==
    \E a, b \in ConnIds :
       /\ a # b
       /\ \E i \in 1..Len(wire[b]) :
             wire[b][i].payload.kind = "Message" /\ wire[b][i].from = a
       /\ \A i \in 1..Len(wire[a]) : wire[a][i].payload.kind # "Message"

\* C5: the targets of a Message response are connections that are
\* authenticated when the command is built, and a Message is written only
\* to a connection whose session is authenticated.
C5_OnlyAuthenticatedTargets ==
    [][ /\ \A cmd \in NewCommands :
              cmd.payload.kind = "Message"
                 => TargetSet(cmd)' \subseteq Authenticated(users')
        /\ (SenderWrites /\ sCmd.payload.kind = "Message")
              => sCur \in Authenticated(users) ]_vars

\* Witness of C5: a Message response is on the command channel while a
\* connection with an unauthenticated session is in the connection table,
\* and that connection is not among its targets.
C5_Witness ==
    \E i \in 1..Len(msgChan), u \in connections :
       /\ msgChan[i].payload.kind = "Message"
       /\ u \in DOMAIN users /\ ~users[u].authenticated
       /\ u \notin msgChan[i].ids

\* C6: an authenticated session stays as it is until on_user_disconnect
\* destroys it, and an Authentication or Registration request on an
\* authenticated session changes nothing and is answered with no command.
C6_SessionMonotonic ==
    [][\A id \in ConnIds :
          (id \in DOMAIN users /\ users[id].authenticated)
             => /\ id \in DOMAIN users' => users'[id] = users[id]
                /\ id \notin DOMAIN users' =>
                      (HandlesHead /\ Head(evChan).type = "UserDisconnected"
                         /\ Head(evChan).id = id)
                /\ ( /\ HandlesHead
                     /\ Head(evChan).type = "UserSentMessage"
                     /\ Head(evChan).id = id
                     /\ DecodeRequest(Head(evChan).msg).type
                           \in {"Authentication", "Registration"} )
                      => /\ UNCHANGED << users, store, connections, msgChan >>
                         /\ ehEvent'.produced = 0 ]_vars

\* Witness of C6: an authenticated session has just had an Authentication
\* or Registration request handled, with no command for an answer, and is
\* still authenticated.
C6_Witness ==
    /\ ehEvent.type = "UserSentMessage"
    /\ DecodeRequest(ehEvent.msg).type \in {"Authentication", "Registration"}
    /\ ehEvent.produced = 0
    /\ ehEvent.id \in DOMAIN users
    /\ users[ehEvent.id].authenticated
    /\ wire[ehEvent.id] # <<>>

\* The events of connection id that wait on the event channel.
PendingEvents(id) == {i \in 1..Len(evChan) : evChan[i].id = id}

\* The reader task of id is over: it returned or it panicked.
ReaderEnded(id) == rPc[id] \in {"done", "panicked"}

\* C7: once the read loop of a connection has ended, whichever way, and the
\* events it sent have been handled, the connection is in neither the
\* connection table nor the session table (on_user_disconnect was delivered).
C7_EveryExitCleansUp ==
    \A id \in ConnIds :
       (ReaderEnded(id) /\ PendingEvents(id) = {} /\ id \notin kicked)
          => (id \notin connections /\ id \notin DOMAIN users)

\* C8: no payload that read_message built from an incomplete frame (the
\* peer closed before its last byte) is delivered to on_user_message.
C8_NoPayloadFromIncompleteFrame ==
    /\ ehEvent.type = "UserSentMessage" => ehEvent.complete
    /\ \A i \in 1..Len(evChan) :
          evChan[i].type = "UserSentMessage" => evChan[i].complete

\* C9: a whole frame whose payload is no request, of any length, leaves the
\* reader in its loop and sends no UserDisconnected.
C9_MalformedFrameKeepsConnection ==
    [][\A id \in ConnIds, payload \in menu.payloads :
          (ClientSend(id, payload) /\ DecodeRequest(payload).type = "None")
             => /\ rPc'[id] = "loop"
                /\ \A i \in 1..Len(evChan') :
                      evChan'[i].type = "UserDisconnected" => i <= Len(evChan)
      ]_vars

\* C10: no request that a connection sends after DisconnectUser(id) was
\* executed for it is delivered to the session logic.
C10_NoRequestAfterDisconnectUser ==
    ~(ehEvent.type = "UserSentMessage" /\ ehEvent.late)

\* A step in which the sender task takes the command at the head of the
\* command channel.
SenderTakes ==
    Len(msgChan') < Len(msgChan)

\* C11: SendToAllExcept(except_id, payload) is written to exactly the
\* connections of the table snapshot other than except_id (to none, then,
\* only when the table holds nothing but except_id).
C11_AllExceptTargets ==
    [][(SenderTakes /\ Head(msgChan).type = "SendToAllExcept")
          => sTargets' = connections \ Head(msgChan).ids]_vars

\* A byte string that is a concatenation of whole frames: empty, or a
\* header, the body of the length in it, and whole frames again.
RECURSIVE IsFrames(_)
IsFrames(bytes) ==
    \/ bytes = <<>>
    \/ /\ Len(bytes) >= 4
       /\ Len(bytes) >= 4 + FromLeBytes(Take(bytes, 4))
       /\ IsFrames(Drop(bytes, 4 + FromLeBytes(Take(bytes, 4))))

\* C12: the bytes written to a socket are a concatenation of whole frames.
C12_WholeFramesOnSocket ==
    IsFrames(out)

\* A frame of this kind and flag, built for a request of connection from,
\* was written to connection id.
WrittenTo(id, kind, flag, from) ==
    \E i \in 1..Len(wire[id]) :
       /\ wire[id][i].payload.kind = kind
       /\ wire[id][i].payload.flag = flag
       /\ wire[id][i].from = from

\* C13: the sender takes the commands in the order in which they were put
\* on the channel, one after the other has been executed, and writes the
\* payload of the command it took; so the Connection notification of a
\* connection is written to no other connection before its successful
\* AuthenticationResult was written to the connection itself (or the write
\* of it failed on a broken connection).
C13_ListOrder ==
    [][ /\ SenderTakes
           => /\ sTargets = {}
              /\ msgChan' = Tail(msgChan)
              /\ sCmd' \in {Head(msgChan), NoCmd}
        /\ \A id \in ConnIds :
              wire'[id] # wire[id]
                 => /\ Len(wire'[id]) = Len(wire[id]) + 1
                    /\ wire'[id][Len(wire'[id])].payload = sCmd.payload
        /\ \A a, b \in ConnIds :
              (a # b /\ WrittenTo(a, "Connection", TRUE, b)')
                 => \/ WrittenTo(b, "AuthenticationResult", TRUE, b)'
                    \/ WriteResult(b)' = "err" ]_vars

\* Witness of C13: a successful authentication of b was answered, and the
\* other connection was told of it.
C13_Witness ==
    \E a, b \in ConnIds :
       /\ a # b
       /\ WrittenTo(b, "AuthenticationResult", TRUE, b)
       /\ WrittenTo(a, "Connection", TRUE, b)

\* The messages of connection id that wait on a channel, oldest first.
MsgsOf(chan, id) ==
    SelectSeq(chan, LAMBDA e : e.type = "UserSentMessage" /\ e.id = id)

\* C14: a frame that arrived on the socket of a connection goes behind the
\* messages of that connection that wait for the event handler, and
\* on_user_message is invoked for the oldest of them, whatever events of
\* other connections are on the channel.
C14_InboundOrder ==
    [][\A id \in ConnIds :
          /\ \/ MsgsOf(evChan', id) = MsgsOf(evChan, id)
             \/ /\ Len(MsgsOf(evChan', id)) = Len(MsgsOf(evChan, id)) + 1
                /\ Take(MsgsOf(evChan', id), Len(MsgsOf(evChan, id)))
                      = MsgsOf(evChan, id)
             \/ /\ MsgsOf(evChan, id) # <<>>
                /\ MsgsOf(evChan', id) = Tail(MsgsOf(evChan, id))
                /\ ehEvent'.id = id
                /\ ehEvent'.type = "UserSentMessage"
                /\ ehEvent'.msg = Head(MsgsOf(evChan, id)).msg
          /\ \A payload \in menu.payloads :
                (ClientSend(id, payload) /\ evChan' # evChan)
                   => \/ evChan'[Len(evChan')].type = "UserDisconnected"
                      \/ /\ evChan'[Len(evChan')].id = id
                         /\ evChan'[Len(evChan')].msg = payload ]_vars

\* Witness of C14: on_user_message was invoked for a frame of a connection
\* while a later, different frame of that connection and an event of
\* another connection wait on the channel.
C14_Witness ==
    \E id \in ConnIds :
       /\ ehEvent.type = "UserSentMessage" /\ ehEvent.id = id
       /\ MsgsOf(evChan, id) # <<>>
       /\ Head(MsgsOf(evChan, id)).msg # ehEvent.msg
       /\ \E i \in 1..Len(evChan) : evChan[i].id # id

\* C15: after the interrupt signal run() does not end by a panic, and once
\* event_handler has left its loop the connection table is empty and stays
\* empty.
C15_GracefulShutdown ==
    /\ runPc # "panicked"
    /\ ehPc = "done" => connections = {}

\* The sender task is suspended in the write to a socket that never
\* becomes writable.
StalledWrite == sPc = "writing" /\ WriteResult(sCur) = "wait"

\* C16: a write suspended on a socket that never becomes writable keeps
\* nothing else waiting: no other destination of the command, no later
\* command for another destination, and no event that event_handler needs
\* the state lock for.
C16_StalledPeerBlocksNobody ==
    StalledWrite
       => /\ sTargets \ {sCur} = {}
          /\ \A i \in 1..Len(msgChan) : TargetSet(msgChan[i]) \ {sCur} = {}
          /\ evChan # <<>> => mutex # "sender"

\* The event taken by this step belongs to a session that is authenticated
\* before the step, or after it.
WasAuthenticated(id) == id \in DOMAIN users /\ users[id].authenticated
IsAuthenticated(id) == id \in DOMAIN users' /\ users'[id].authenticated

\* The command a step puts last on the command channel, and the connections
\* it is written to given the connection table after the step.
LastCommand == msgChan'[Len(msgChan')]
LastTargets == SenderUsersList(LastCommand, connections').list

Accepts(db, name, password) ==
    \E r \in db : r.name = name /\ r.password_hash = BcryptHash(password)

\* C18: a session becomes authenticated only in the step that handles an
\* Authentication request of it whose credentials the store holds; a
\* Registration, and an Authentication the store does not hold, are
\* answered and leave it unauthenticated; a Message of an unauthenticated
\* session is answered with no command.
C18_OnlyAcceptedAuthentication ==
    [][ /\ \A id \in ConnIds :
              (~WasAuthenticated(id) /\ IsAuthenticated(id))
                 => /\ HandlesHead
                    /\ Head(evChan).type = "UserSentMessage"
                    /\ Head(evChan).id = id
                    /\ DecodeRequest(Head(evChan).msg).type = "Authentication"
                    /\ Accepts(store, DecodeRequest(Head(evChan).msg).name,
                               DecodeRequest(Head(evChan).msg).password)
        /\ ( /\ HandlesHead
             /\ Head(evChan).type = "UserSentMessage"
             /\ Head(evChan).id \in DOMAIN users
             /\ ~WasAuthenticated(Head(evChan).id) )
              => LET id == Head(evChan).id
                     req == DecodeRequest(Head(evChan).msg)
                 IN
                 /\ req.type = "Registration"
                       => /\ ~IsAuthenticated(id)
                          /\ ehEvent'.produced = 1
                 /\ (req.type = "Authentication"
                        /\ ~Accepts(store, req.name, req.password))
                       => /\ ~IsAuthenticated(id)
                          /\ ehEvent'.produced = 1
                          /\ users' = users
                 /\ req.type = "Message"
                       => /\ ehEvent'.produced = 0
                          /\ UNCHANGED << users, store, msgChan >> ]_vars

\* Witness of C18: a session whose Registration succeeded and was answered,
\* and whose Authentication with credentials the store does not hold was
\* handled after it, is unauthenticated.
C18_Witness ==
    \E id \in DOMAIN users :
       /\ ~users[id].authenticated
       /\ WrittenTo(id, "RegistrationResult", TRUE, id)
       /\ ehEvent.id = id
       /\ ehEvent.type = "UserSentMessage"
       /\ DecodeRequest(ehEvent.msg).type = "Authentication"
       /\ ehEvent.produced = 1

\* C19: an entry of the session table has a user name if and only if it is
\* authenticated.
C19_NameIffAuthenticated ==
    \A id \in DOMAIN users :
       /\ users[id].name # {} <=> users[id].authenticated
       /\ Cardinality(users[id].name) <= 1

\* Witness of C19: the table holds an authenticated entry with its name and
\* an unauthenticated one whose requests were handled and that has none.
C19_Witness ==
    \E a, b \in DOMAIN users :
       /\ users[a].authenticated /\ users[a].name = {Alice}
       /\ ~users[b].authenticated /\ users[b].name = {}
       /\ ehEvent.type = "UserSentMessage" /\ ehEvent.id = b

\* The name and password of the last call of authenticate_user.
LastTried == [name |-> authResult.name, password |-> authResult.password]

\* add_user accepts every valid name the store does not hold with every
\* valid password, and authenticate_user accepts whatever was registered.
RegisteredAreAccepted ==
    /\ \A cred \in Credentials :
          ( /\ VerifyName(cred.name) = "Ok"
            /\ VerifyPassword(cred.password) = "Ok"
            /\ \A r \in store : r.name # cred.name )
             => AddUser(store, cred).result = <<"Ok">>
    /\ \A cred \in registered : AuthenticateUser(store, cred) = "Ok"

\* C20: add_user returns Ok(()) for every valid name that the store does
\* not hold and every valid password, and a call of authenticate_user
\* returns Ok(()) for every name and password add_user returned Ok(()) for,
\* whatever was registered and tried since.
C20_RegisterThenAuthenticate ==
    [][ /\ RegisteredAreAccepted
        /\ RegisteredAreAccepted'
        /\ (authResult' # authResult /\ LastTried' \in registered)
              => authResult'.result = "Ok" ]_vars

\* Witness of C20: two names were registered, and authenticate_user was
\* called for the one with the name and password of its registration.
C20_Witness ==
    /\ Cardinality(registered) >= 2
    /\ LastTried \in registered
    /\ authResult.result = "Ok"

\* The store holds a record with the name.
Registered(db, name) == \E r \in db : r.name = name

\* C21: the credential store holds at most one record per name, and a call
\* of add_user with a name the store already holds returns NameAlreadyInUse
\* and leaves the store as it was.
C21_OneRecordPerName ==
    [][ /\ \A r1, r2 \in store' : r1.name = r2.name => r1 = r2
        /\ (addResult' # addResult /\ Registered(store, addResult'.name))
              => /\ addResult'.result = <<"NameAlreadyInUse">>
                 /\ store' = store ]_vars

\* Witness of C21: a name add_user returned Ok(()) for was tried again with
\* another password and refused.
C21_Witness ==
    /\ addResult.result = <<"NameAlreadyInUse">>
    /\ \E c \in registered :
          c.name = addResult.name /\ c.password # addResult.password
    /\ Cardinality(store) = Cardinality(registered) + 1

\* C22: add_user reports the first failing check in the order name
\* validity, lookup of the name, password validity: an invalid name yields
\* IncorrectName with no lookup in the store, a valid name the store holds
\* yields NameAlreadyInUse whatever the password, and only a valid name the
\* store does not hold yields IncorrectPassword for an invalid password.
C22_OrderOfChecks ==
    [][ addResult' # addResult
           => LET name == addResult'.name
                  password == addResult'.password
              IN
              /\ VerifyName(name) # "Ok"
                    => /\ addResult'.result = <<"IncorrectName", VerifyName(name)>>
                       /\ addResult'.lookups = 0
              /\ (VerifyName(name) = "Ok" /\ Registered(store, name))
                    => /\ addResult'.result = <<"NameAlreadyInUse">>
                       /\ addResult'.lookups = 1
              /\ ( /\ VerifyName(name) = "Ok"
                   /\ ~Registered(store, name)
                   /\ VerifyPassword(password) # "Ok" )
                    => addResult'.result =
                          <<"IncorrectPassword", VerifyPassword(password)>> ]_vars

\* Witness of C22: add_user was called with a name it had registered and a
\* password that fails verify_password, and returned NameAlreadyInUse.
C22_Witness ==
    /\ addResult.result = <<"NameAlreadyInUse">>
    /\ VerifyPassword(addResult.password) # "Ok"
    /\ \E c \in registered : c.name = addResult.name

\* The character c stands twice in a row somewhere in the name.
Adjacent(name, c) ==
    \E i \in 1..(Len(name) - 1) : name[i] = c /\ name[i + 1] = c

\* C23: verify_name accepts exactly the names of 7 to 32 bytes of ASCII
\* alphanumerics, dots and underscores with no two adjacent dots and no two
\* adjacent underscores; it returns MultipleDots only for a dot that follows
\* a dot and MultipleUnderscores only for an underscore that follows an
\* underscore.
C23_ValidNames ==
    nameResult.result # "None"
       => LET name == nameResult.name IN
          /\ nameResult.result = "MultipleDots" => Adjacent(name, ".")
          /\ nameResult.result = "MultipleUnderscores" => Adjacent(name, "_")
          /\ nameResult.result = "Ok"
                <=> /\ Len(name) >= 7 /\ Len(name) <= 32
                    /\ \A i \in 1..Len(name) :
                          name[i] \in AsciiAlphanumeric \cup {".", "_"}
                    /\ ~Adjacent(name, ".")
                    /\ ~Adjacent(name, "_")

\* The store without the record of the name.
WithoutAccount(db, name) == {r \in db : r.name # name}

\* C24: authenticate_user returns the same error, WrongNameOrPassword, for a
\* name the store does not hold and for a name it holds with another
\* password: whatever it answers a refused name and password with, it
\* answers them with in the store that differs only in the account of that
\* name not existing.
C24_SameErrorForBothCases ==
    /\ authResult.result \in {"None", "Ok", "WrongNameOrPassword"}
    /\ (authResult.result = "WrongNameOrPassword"
           /\ AuthenticateUser(store, LastTried) # "Ok")
          => AuthenticateUser(WithoutAccount(store, authResult.name), LastTried)
                = authResult.result
    /\ \A cred \in Credentials :
          AuthenticateUser(store, cred) # "Ok"
             => /\ AuthenticateUser(store, cred) = "WrongNameOrPassword"
                /\ AuthenticateUser(WithoutAccount(store, cred.name), cred)
                      = AuthenticateUser(store, cred)

\* Witness of C24: authenticate_user refused a name that add_user had
\* registered, tried with another password, while the store lacks another
\* of the names.
C24_Witness ==
    /\ authResult.result = "WrongNameOrPassword"
    /\ \E c \in registered :
          c.name = authResult.name /\ c.password # authResult.password
    /\ \E cred \in Credentials :
          VerifyName(cred.name) = "Ok" /\ ~Registered(store, cred.name)

\* C25: the records of the credential store are only ever added: a call of
\* authenticate_user and a call of add_user that returns an error leave the
\* store as it was, a call of add_user that returns Ok(()) adds one record,
\* of the name it was called with, and every record stays as it is.
C25_StoreOnlyGrows ==
    [][ /\ store \subseteq store'
        /\ store' # store
              => /\ addResult' # addResult
                 /\ addResult'.result = <<"Ok">>
                 /\ authResult' = authResult
        /\ (addResult' # addResult /\ addResult'.result = <<"Ok">>)
              => /\ Cardinality(store' \ store) = 1
                 /\ \A r \in store' \ store : r.name = addResult'.name
        /\ (addResult' # addResult /\ addResult'.result # <<"Ok">>)
              => store' = store
        /\ authResult' # authResult => store' = store ]_vars

\* Witness of C25: after a call of add_user that returned Ok(()), a call of
\* add_user returned an error and authenticate_user was called, and the
\* store holds the record of the first call.
C25_Witness ==
    /\ registered # {}
    /\ addResult.result \notin {<<"None">>, <<"Ok">>}
    /\ authResult.result = "WrongNameOrPassword"
    /\ \A c \in registered : Accepts(store, c.name, c.password)

\* C26: the bytes write_message puts on the socket for a payload are the 4
\* bytes of its length, little-endian, followed by the payload, and
\* read_message applied to these bytes returns the payload and leaves
\* nothing unread.
C26_RoundTrip ==
    [][ \A payload \in WirePayloads, n1 \in 0..4, n2 \in 0..2 :
           SocketWrite(payload, n1, n2)
              => LET written == Drop(out', Len(out))
                     read == ReadMessage(written, "open")
                 IN
                 /\ written = LeBytes(Len(payload)) \o payload
                 /\ read.res = "ok"
                 /\ read.buf = payload
                 /\ read.rest = <<>> ]_vars

\* The limit of the length of a frame that the claim is about, at the scale
\* of the frames of the model; read_message has no such limit.
MaxFrame == 1

\* C27: no payload of a frame whose header announces a length above the
\* limit is delivered to the session logic.
C27_NoOversizedFrame ==
    /\ ehEvent.type = "UserSentMessage" => Len(ehEvent.msg) <= MaxFrame
    /\ \A i \in 1..Len(evChan) :
          evChan[i].type = "UserSentMessage" => Len(evChan[i].msg) <= MaxFrame

\* The event handler holds the lock of the state and waits in
\* message_sender.send for room on the command channel.
EHWaitsForRoom ==
    /\ ehPc = "sending"
    /\ mutex = "eh"
    /\ Len(msgChan) >= ChannelCapacity

\* The sender task cannot go on before it has the lock of the state: it is
\* at the head of an iteration over its targets, or the command it would
\* take next locks the state in its arm.
SenderWaitsForMutex ==
    \/ sPc = "lock"
    \/ /\ sPc = "recv"
       /\ msgChan # <<>>
       /\ Head(msgChan).type \in {"SendToAll", "SendToAllExcept", "DisconnectUser"}

\* C28: the event handler and the sender task never wait for each other:
\* while the event handler holds the lock of the state and waits for room on
\* the command channel, the sender task can take a command and execute it.
C28_NoDeadlock ==
    ~(EHWaitsForRoom /\ SenderWaitsForMutex)

\* C29: before the interrupt signal the sender task has not ended while a
\* command is on the command channel: every command put on the channel is
\* taken by it.
C29_SenderKeepsServing ==
    runPc = "waiting" => ~(SenderGone /\ msgChan # <<>>)

\* The original statement of C30: whenever the lock of the state is free,
\* the connection table and the session table hold the same connection ids.
C30_TablesEqual ==
    (runPc = "waiting" /\ mutex = "free") => connections = DOMAIN users

\* C30 (amended): before the interrupt signal, whenever the lock of the
\* state is free, the connection table holds the connection ids of the
\* session table but those a DisconnectUser command was executed for, whose
\* session stays until UserDisconnected is handled.
C30_TablesAgree ==
    (runPc = "waiting" /\ mutex = "free")
       => connections = (DOMAIN users) \ kicked

\* Witness of C30: the lock is free, a connection a DisconnectUser command
\* was executed for has its session, and another connection has its entry
\* in both tables.
C30_Witness ==
    /\ runPc = "waiting" /\ mutex = "free"
    /\ \E a \in kicked, b \in connections :
          a \in DOMAIN users /\ b \in DOMAIN users /\ a # b

\* C31: a write_message that returns Ok(()) has put all 4 bytes of the
\* header and all bytes of the body on the socket, however many bytes each
\* try_write accepted.
C31_OkMeansWritten ==
    [][ \A payload \in WirePayloads, n1 \in 0..4, n2 \in 0..2 :
           SocketWrite(payload, n1, n2)
              => /\ Len(out') = Len(out) + 4 + Len(payload)
                 /\ SubSeq(out', Len(out) + 1, Len(out) + 4)
                       = LeBytes(Len(payload))
                 /\ Drop(out', Len(out) + 4) = payload ]_vars

====
